---- MODULE Spec2Model ----
(***************************************************************************)
(* A model of pkg/config/config.go of the Spark operator: building a       *)
(* ConfigMap from a configuration directory, creating it in the API        *)
(* server, registering it in the driver/executor annotations of a          *)
(* SparkApplication, and wiring it into a Pod and a container.             *)
(*                                                                         *)
(* Text is a sequence of symbols.  The string literals of the const        *)
(* blocks are kept as single symbols (no code looks inside them); the      *)
(* separators "," "=" "-" and the decimal digits are symbols of their own. *)
(* File contents, the directory path, the namespace and the UID are the    *)
(* inputs of the hash and are sequences of bytes (0..255).                 *)
(***************************************************************************)
EXTENDS Integers, Sequences, FiniteSets, TLC

VARIABLES
    disk,        \* directory path -> what ioutil.ReadDir / ReadFile find there
    built,       \* build id -> result of buildConfigMapFromConfigDir, or NotBuilt
    buildArgs,   \* (dir, namePrefix, namespace, appUID) of the builds
    SparkConf,   \* app.Spec.SparkConf: a map from configuration key to text
    SparkConfigMap,   \* app.Spec.SparkConfigMap (*string)
    HadoopConfigMap,  \* app.Spec.HadoopConfigMap (*string)
    store,       \* names of the ConfigMaps the API server holds
    requests,    \* invocation -> number of create requests it issued
    enforceUnique,  \* whether the store rejects a create of an existing name
    inv,         \* invocation -> its frame (position, arguments, locals, result)
    added,       \* the AddConfigMapAnnotation calls made directly, in call order
    Volumes,     \* pod.Spec.Volumes
    VolumeMounts,   \* container.VolumeMounts
    Env,         \* container.Env
    pod0,        \* the pod/container lists before the first wiring call
    wired        \* the wiring calls made, in call order

vars == <<disk, built, buildArgs, SparkConf, SparkConfigMap, HadoopConfigMap,
          store, requests, enforceUnique, inv, added,
          Volumes, VolumeMounts, Env, pod0, wired>>

buildVars == <<disk, built, buildArgs>>
appVars == <<SparkConf, SparkConfigMap, HadoopConfigMap>>
pipeVars == <<store, requests, enforceUnique, inv>>
podVars == <<Volumes, VolumeMounts, Env, pod0, wired>>

-----------------------------------------------------------------------------
(* Bounds of the model.                                                    *)

MaxFiles == 2
MaxAdds == 3
MaxInvocations == 2
MaxWirings == 3

-----------------------------------------------------------------------------
(* The constants of config.go.                                             *)

SparkConfigMapNamePrefix == <<"spark-config-map">>
SparkConfigMapVolumeName == <<"spark-config-map-volume">>
HadoopConfigMapNamePrefix == <<"hadoop-config-map">>
HadoopConfigMapVolumeName == <<"hadoop-config-map-volume">>
LabelAnnotationPrefix == <<"apache-spark-on-k8s/">>
SparkConfigMapAnnotation == LabelAnnotationPrefix \o <<"spark-config-map">>
HadoopConfigMapAnnotation == LabelAnnotationPrefix \o <<"hadoop-config-map">>
SparkDriverAnnotationsKey == "spark.kubernetes.driver.annotations"
SparkExecutorAnnotationsKey == "spark.kubernetes.executor.annotations"
SparkConfDirEnvVar == "SPARK_CONF_DIR"
HadoopConfDirEnvVar == "HADOOP_CONF_DIR"

-----------------------------------------------------------------------------
(* util.NewHash32: the 32-bit FNV-1 accumulator of hash/fnv.  A 32-bit     *)
(* value is kept as two 16-bit halves so that every product stays small.   *)

Half == 65536
FnvOffsetHi == 33052
FnvOffsetLo == 40389
FnvPrimeHi == 256
FnvPrimeLo == 403

RECURSIVE Xor(_, _, _)
Xor(a, b, bits) ==
    IF bits = 0 THEN 0
    ELSE ((a + b) % 2) + 2 * Xor(a \div 2, b \div 2, bits - 1)

NewHash32 == [hi |-> FnvOffsetHi, lo |-> FnvOffsetLo]

\* hash = hash * prime (mod 2^32), then hash = hash XOR byte
HashByte(h, b) ==
    LET low == h.lo * FnvPrimeLo
        mlo == low % Half
        mhi == ((low \div Half) + h.hi * FnvPrimeLo + h.lo * FnvPrimeHi) % Half
    IN  [hi |-> mhi, lo |-> (mlo \div 256) * 256 + Xor(mlo % 256, b, 8)]

RECURSIVE HashWrite(_, _)
HashWrite(h, bytes) ==
    IF bytes = <<>> THEN h ELSE HashWrite(HashByte(h, Head(bytes)), Tail(bytes))

-----------------------------------------------------------------------------
(* fmt.Sprintf("%d", hasher.Sum32()): the decimal digits of a uint32.      *)

Digit == <<"0", "1", "2", "3", "4", "5", "6", "7", "8", "9">>

RECURSIVE FormatUint32(_)
FormatUint32(h) ==
    LET rest == (h.hi % 10) * Half + h.lo
        q == [hi |-> h.hi \div 10, lo |-> rest \div 10]
        d == <<Digit[(rest % 10) + 1]>>
    IN  IF q.hi = 0 /\ q.lo = 0 THEN d ELSE FormatUint32(q) \o d

-----------------------------------------------------------------------------
(* buildConfigMapFromConfigDir.                                            *)

NilConfigMap == [nil |-> TRUE]
NoError == "nil"

\* data[file.Name()] = string(bytes)
MapPut(m, k, v) == [x \in (DOMAIN m) \cup {k} |-> IF x = k THEN v ELSE m[x]]

EmptyMap == [x \in {} |-> <<>>]

\* A faulty variant of the loop: directory entries are not skipped.
RECURSIVE ReadFilesKeepDirs(_, _, _)
ReadFilesKeepDirs(files, h, data) ==
    IF files = <<>> THEN [err |-> NoError, hasher |-> h, data |-> data]
    ELSE LET file == Head(files) IN
         IF file.readErr
         THEN [err |-> "ReadFileError", hasher |-> h, data |-> data]
         ELSE ReadFilesKeepDirs(Tail(files), HashWrite(h, file.bytes),
                                MapPut(data, file.Name, file.bytes))

\* The loop over the directory entries: the state after the entries in
\* `files`, starting from hasher `h` and map `data`, or the first read error.
RECURSIVE ReadFiles(_, _, _)
ReadFiles(files, h, data) ==
    IF files = <<>> THEN [err |-> NoError, hasher |-> h, data |-> data]
    ELSE LET file == Head(files) IN
         IF file.IsDir THEN ReadFiles(Tail(files), h, data)
         ELSE IF file.readErr
              THEN [err |-> "ReadFileError", hasher |-> h, data |-> data]
              ELSE ReadFiles(Tail(files), HashWrite(h, file.bytes),
                             MapPut(data, file.Name, file.bytes))

ConfigMapName(namePrefix, h) == namePrefix \o <<"-">> \o FormatUint32(h)

\* A faulty variant: the namespace is written before the directory path.
TrailingWritesNamespaceFirst(h, dir, namespace, appUID) ==
    HashWrite(HashWrite(HashWrite(h, namespace), dir), appUID)

TrailingWrites(h, dir, namespace, appUID) ==
    HashWrite(HashWrite(HashWrite(h, dir), namespace), appUID)

buildConfigMapFromConfigDir(fs, dir, namePrefix, namespace, appUID) ==
    IF fs[dir].readDirErr
    THEN [configMap |-> NilConfigMap, err |-> "ReadDirError"]
    ELSE LET r == ReadFiles(fs[dir].files, NewHash32, EmptyMap) IN
         IF r.err # NoError
         THEN [configMap |-> NilConfigMap, err |-> r.err]
         ELSE [configMap |->
                  [nil |-> FALSE,
                   Namespace |-> namespace,
                   Data |-> r.data,
                   Name |-> ConfigMapName(namePrefix,
                               TrailingWrites(r.hasher, dir, namespace, appUID))],
               err |-> NoError]

-----------------------------------------------------------------------------
(* The states the parts of the model are idle in.                          *)

NotBuilt == [configMap |-> NilConfigMap, err |-> "not built"]
NilString == [nil |-> TRUE]
StringPtr(s) == [nil |-> FALSE, val |-> s]

Builds == 1 .. 2
Invocations == 1 .. MaxInvocations

IdleFrame ==
    [pc |-> "idle", flow |-> "none", dir |-> <<>>, namespace |-> <<>>,
     configMap |-> NilConfigMap, err |-> NoError, name |-> <<>>,
     annotations |-> <<>>, ok |-> FALSE, ret |-> "none"]

EmptyPod == [Volumes |-> <<>>, VolumeMounts |-> <<>>, Env |-> <<>>]

BuildIdle ==
    /\ built = [b \in Builds |-> NotBuilt]
    /\ buildArgs = [dir |-> <<>>, namePrefix |-> <<>>, namespace |-> <<>>,
                    appUID |-> <<>>]
\* A SparkApplication nothing was registered on.  Spec.SparkConf is an
\* allocated, empty map: the callers hand over a SparkApplication whose map
\* exists (an assignment into a nil map would panic).
AppFresh ==
    /\ SparkConf = EmptyMap
    /\ SparkConfigMap = NilString
    /\ HadoopConfigMap = NilString
PipeIdle ==
    /\ store = <<>>
    /\ requests = [p \in Invocations |-> 0]
    /\ enforceUnique = TRUE
    /\ inv = [p \in Invocations |-> IdleFrame]
PodIdle ==
    /\ Volumes = <<>>
    /\ VolumeMounts = <<>>
    /\ Env = <<>>
    /\ pod0 = EmptyPod
    /\ wired = <<>>

-----------------------------------------------------------------------------
(* Building a ConfigMap from a directory: the directory listings that      *)
(* ioutil.ReadDir can return (sorted by file name, names distinct) and     *)
(* two independent builds of the same directory.                           *)

FileNames == <<"a.conf", "b.conf", "c.d">>
FileBytes == {<<>>, <<97>>, <<97, 98>>}
DirPaths == {<<47, 115>>, <<110>>}
Namespaces == {<<110>>, <<47, 115>>}
UIDs == {<<117>>, <<>>}
NamePrefixes == {SparkConfigMapNamePrefix, HadoopConfigMapNamePrefix}

FileInfo(i) ==
    {[Name |-> FileNames[i], IsDir |-> TRUE, bytes |-> <<>>, readErr |-> FALSE],
     [Name |-> FileNames[i], IsDir |-> FALSE, bytes |-> <<>>, readErr |-> TRUE]}
    \cup {[Name |-> FileNames[i], IsDir |-> FALSE, bytes |-> c, readErr |-> FALSE] :
             c \in FileBytes}

\* the listings of at most MaxFiles entries whose names are among the
\* FileNames from index `from` on, in increasing order
RECURSIVE Listings(_, _)
Listings(from, n) ==
    IF n = 0 \/ from > Len(FileNames) THEN {<<>>}
    ELSE Listings(from + 1, n)
         \cup {<<f>> \o rest : f \in FileInfo(from), rest \in Listings(from + 1, n - 1)}

ReadDirResults ==
    {[readDirErr |-> TRUE, files |-> <<>>]}
    \cup {[readDirErr |-> FALSE, files |-> l] : l \in Listings(1, MaxFiles)}

InitBuild ==
    /\ \E d \in DirPaths, r \in ReadDirResults, np \in NamePrefixes,
          ns \in Namespaces, u \in UIDs :
          /\ disk = [x \in {d} |-> r]
          /\ buildArgs = [dir |-> d, namePrefix |-> np, namespace |-> ns,
                          appUID |-> u]
    /\ built = [b \in Builds |-> NotBuilt]
    /\ AppFresh /\ PipeIdle /\ PodIdle /\ added = <<>>

Build(b) ==
    /\ built[b] = NotBuilt
    /\ built' = [built EXCEPT ![b] =
                    buildConfigMapFromConfigDir(disk, buildArgs.dir,
                        buildArgs.namePrefix, buildArgs.namespace,
                        buildArgs.appUID)]
    /\ UNCHANGED <<disk, buildArgs, appVars, pipeVars, podVars, added>>

NextBuild == \E b \in Builds : Build(b)

SpecBuild == InitBuild /\ [][NextBuild]_vars

-----------------------------------------------------------------------------
(* AddConfigMapAnnotation.                                                 *)

\* annotations, ok := app.Spec.SparkConf[annotationConfKey]
MapLookup(conf, annotationConfKey) ==
    IF annotationConfKey \in DOMAIN conf
    THEN [annotations |-> conf[annotationConfKey], ok |-> TRUE]
    ELSE [annotations |-> <<>>, ok |-> FALSE]

\* A faulty variant: the new pair replaces the value instead of extending it.
AnnotationStoreOverwrite(conf, annotationConfKey, found, key, value) ==
    MapPut(conf, annotationConfKey, key \o <<"=">> \o value)

\* the assignment of either branch, given what the lookup found
AnnotationStore(conf, annotationConfKey, found, key, value) ==
    IF found.ok
    THEN MapPut(conf, annotationConfKey,
                found.annotations \o <<",">> \o key \o <<"=">> \o value)
    ELSE MapPut(conf, annotationConfKey, key \o <<"=">> \o value)

AddConfigMapAnnotation(conf, annotationConfKey, key, value) ==
    AnnotationStore(conf, annotationConfKey, MapLookup(conf, annotationConfKey),
                    key, value)

(* Direct calls of AddConfigMapAnnotation on one SparkApplication.         *)

AnnotationKeys == {SparkDriverAnnotationsKey, SparkExecutorAnnotationsKey}
Subkeys == {SparkConfigMapAnnotation, <<"cm-annot">>}
Values == {<<"name1">>, <<"a", ",", "b", "=", "c">>, <<>>}
OtherConf == [k \in {"spark.executor.instances"} |-> <<"2">>]

InitAnnot ==
    /\ SparkConf = OtherConf
    /\ SparkConfigMap = NilString
    /\ HadoopConfigMap = NilString
    /\ added = <<>>
    /\ disk = EmptyMap
    /\ BuildIdle /\ PipeIdle /\ PodIdle

AddAnnotation(annotationConfKey, key, value) ==
    /\ Len(added) < MaxAdds
    /\ SparkConf' = AddConfigMapAnnotation(SparkConf, annotationConfKey, key, value)
    /\ added' = Append(added, [annotationConfKey |-> annotationConfKey,
                               key |-> key, value |-> value])
    /\ UNCHANGED <<SparkConfigMap, HadoopConfigMap, buildVars, pipeVars, podVars>>

NextAnnot ==
    \E a \in AnnotationKeys, k \in Subkeys, v \in Values : AddAnnotation(a, k, v)

SpecAnnot == InitAnnot /\ [][NextAnnot]_vars

-----------------------------------------------------------------------------
(* CreateSparkConfigMap / CreateHadoopConfigMap, one step per statement.   *)
(* An invocation is a frame inv[p]; its pc names the statement it is at.   *)
(* AddConfigMapAnnotation takes two steps, the map lookup and the map      *)
(* assignment, since nothing makes the two atomic when two invocations     *)
(* run on the same SparkApplication at once.                               *)

Flows == {"spark", "hadoop"}

FlowNamePrefix(flow) ==
    IF flow = "spark" THEN SparkConfigMapNamePrefix ELSE HadoopConfigMapNamePrefix

FlowAnnotation(flow) ==
    IF flow = "spark" THEN SparkConfigMapAnnotation ELSE HadoopConfigMapAnnotation

\* A faulty variant: both flows assign Spec.SparkConfigMap.
SetConfigMapFieldSparkOnly(flow, spark, hadoop, name) ==
    [SparkConfigMap |-> StringPtr(name), HadoopConfigMap |-> hadoop]

\* app.Spec.SparkConfigMap = new(string); *app.Spec.SparkConfigMap = name
\* (resp. HadoopConfigMap)
SetConfigMapField(flow, spark, hadoop, name) ==
    IF flow = "spark"
    THEN [SparkConfigMap |-> StringPtr(name), HadoopConfigMap |-> hadoop]
    ELSE [SparkConfigMap |-> spark, HadoopConfigMap |-> StringPtr(name)]

\* The directories the invocations are given, and the SparkApplication.
PipeDisk ==
    (<<47, 115>> :> [readDirErr |-> FALSE, files |->
        <<[Name |-> "a.conf", IsDir |-> FALSE, bytes |-> <<97>>, readErr |-> FALSE],
          [Name |-> "c.d", IsDir |-> TRUE, bytes |-> <<>>, readErr |-> FALSE]>>])
    @@ (<<47, 104>> :> [readDirErr |-> FALSE, files |->
        <<[Name |-> "b.conf", IsDir |-> FALSE, bytes |-> <<97, 98>>, readErr |-> FALSE]>>])
    @@ (<<47, 120>> :> [readDirErr |-> TRUE, files |-> <<>>])
    @@ (<<47, 102>> :> [readDirErr |-> FALSE, files |->
        <<[Name |-> "a.conf", IsDir |-> FALSE, bytes |-> <<97>>, readErr |-> FALSE],
          [Name |-> "b.conf", IsDir |-> FALSE, bytes |-> <<>>, readErr |-> TRUE]>>])
PipeNamespace == <<110>>
AppUID == <<117>>

InStore(st, name) == \E i \in 1 .. Len(st) : st[i] = name

\* kubeClient.CoreV1().ConfigMaps(namespace).Create(configMap): what the
\* client can answer.  On success the server's copy of the object comes
\* back.  On failure the client interface fixes no result: the REST client
\* returns a pointer to an empty object, the fake clientset returns nil.
EmptyConfigMap == [nil |-> FALSE, Namespace |-> <<>>, Data |-> EmptyMap, Name |-> <<>>]

CreateAnswers(st, unique, configMap) ==
    (IF unique /\ InStore(st, configMap.Name)
     THEN {[store |-> st, configMap |-> c, err |-> "AlreadyExists"] :
              c \in {NilConfigMap, EmptyConfigMap}}
     ELSE {[store |-> Append(st, configMap.Name), configMap |-> configMap,
            err |-> NoError]})
    \cup {[store |-> st, configMap |-> c, err |-> "CreateError"] :
             c \in {NilConfigMap, EmptyConfigMap}}

InitPipe ==
    /\ disk = PipeDisk
    /\ AppFresh
    /\ store = <<>>
    /\ requests = [p \in Invocations |-> 0]
    /\ enforceUnique \in BOOLEAN
    /\ inv = [p \in Invocations |-> IdleFrame]
    /\ added = <<>>
    /\ BuildIdle /\ PodIdle

Running(p) == inv[p].pc \notin {"idle", "done"}

\* `return configMap.Name, err` evaluates configMap.Name: a nil configMap
\* panics (nil pointer dereference), and the invocation returns nothing.
ReturnNameErr(frame, configMap, err) ==
    IF configMap.nil
    THEN [frame EXCEPT !.pc = "done", !.configMap = configMap, !.err = err,
                       !.ret = "panic"]
    ELSE [frame EXCEPT !.pc = "done", !.configMap = configMap, !.err = err,
                       !.name = configMap.Name, !.ret = err]

Call(p, flow, dir) ==
    /\ inv[p].pc = "idle"
    /\ \A q \in Invocations : q < p => inv[q].pc # "idle"
    /\ inv' = [inv EXCEPT ![p] = [@ EXCEPT !.pc = "build", !.flow = flow,
                                  !.dir = dir, !.namespace = PipeNamespace]]
    /\ UNCHANGED <<disk, store, requests, enforceUnique, appVars, added,
                   built, buildArgs, podVars>>

\* the caller serializes the invocations on one SparkApplication
CallInTurn(p, flow, dir) ==
    /\ \A q \in Invocations : ~Running(q)
    /\ Call(p, flow, dir)

\* createConfigMap, lines 176-179
BuildStep(p) ==
    /\ inv[p].pc = "build"
    /\ LET r == buildConfigMapFromConfigDir(disk, inv[p].dir,
                    FlowNamePrefix(inv[p].flow), inv[p].namespace, AppUID)
       IN  inv' = [inv EXCEPT ![p] =
                      IF r.err # NoError
                      THEN ReturnNameErr(@, r.configMap, r.err)
                      ELSE [@ EXCEPT !.pc = "create", !.configMap = r.configMap]]
    /\ UNCHANGED <<disk, store, requests, enforceUnique, appVars, added,
                   built, buildArgs, podVars>>

\* createConfigMap, lines 180-184
CreateStep(p) ==
    /\ inv[p].pc = "create"
    /\ \E a \in CreateAnswers(store, enforceUnique, inv[p].configMap) :
          /\ store' = a.store
          /\ inv' = [inv EXCEPT ![p] =
                        IF a.err # NoError
                        THEN ReturnNameErr(@, a.configMap, a.err)
                        ELSE [@ EXCEPT !.pc = "driverLookup",
                                       !.configMap = a.configMap,
                                       !.name = a.configMap.Name]]
    /\ requests' = [requests EXCEPT ![p] = @ + 1]
    /\ UNCHANGED <<disk, enforceUnique, appVars, added, built, buildArgs, podVars>>

\* A faulty variant: the second call also names the driver key.
AnnotationsKeyAtDriverOnly(pc) == SparkDriverAnnotationsKey

AnnotationsKeyAt(pc) ==
    IF pc \in {"driverLookup", "driverStore"}
    THEN SparkDriverAnnotationsKey ELSE SparkExecutorAnnotationsKey

\* AddConfigMapAnnotation, line 87
LookupStep(p) ==
    /\ inv[p].pc \in {"driverLookup", "executorLookup"}
    /\ LET found == MapLookup(SparkConf, AnnotationsKeyAt(inv[p].pc))
       IN  inv' = [inv EXCEPT ![p] =
                      [@ EXCEPT !.pc = IF @ = "driverLookup" THEN "driverStore"
                                       ELSE "executorStore",
                                !.annotations = found.annotations,
                                !.ok = found.ok]]
    /\ UNCHANGED <<disk, store, requests, enforceUnique, appVars, added,
                   built, buildArgs, podVars>>

\* AddConfigMapAnnotation, lines 88-92
StoreStep(p) ==
    /\ inv[p].pc \in {"driverStore", "executorStore"}
    /\ SparkConf' = AnnotationStore(SparkConf, AnnotationsKeyAt(inv[p].pc),
                        [annotations |-> inv[p].annotations, ok |-> inv[p].ok],
                        FlowAnnotation(inv[p].flow), inv[p].name)
    /\ inv' = [inv EXCEPT ![p] =
                  [@ EXCEPT !.pc = IF @ = "driverStore" THEN "executorLookup"
                                   ELSE "setField"]]
    /\ UNCHANGED <<disk, store, requests, enforceUnique, SparkConfigMap,
                   HadoopConfigMap, added, built, buildArgs, podVars>>

\* lines 106-109 (resp. 123-126)
SetFieldStep(p) ==
    /\ inv[p].pc = "setField"
    /\ LET f == SetConfigMapField(inv[p].flow, SparkConfigMap, HadoopConfigMap,
                                  inv[p].name)
       IN  /\ SparkConfigMap' = f.SparkConfigMap
           /\ HadoopConfigMap' = f.HadoopConfigMap
    /\ inv' = [inv EXCEPT ![p] = [@ EXCEPT !.pc = "done", !.ret = NoError]]
    /\ UNCHANGED <<disk, store, requests, enforceUnique, SparkConf, added,
                   built, buildArgs, podVars>>

Step(p) ==
    \/ BuildStep(p)
    \/ CreateStep(p)
    \/ LookupStep(p)
    \/ StoreStep(p)
    \/ SetFieldStep(p)

Next ==
    \E p \in Invocations :
        \/ \E flow \in Flows, dir \in DOMAIN PipeDisk : CallInTurn(p, flow, dir)
        \/ Step(p)

Spec == InitPipe /\ [][Next]_vars

NextConc ==
    \E p \in Invocations :
        \/ \E flow \in Flows, dir \in DOMAIN PipeDisk : Call(p, flow, dir)
        \/ Step(p)

SpecConc == InitPipe /\ [][NextConc]_vars

-----------------------------------------------------------------------------
(* Wiring a ConfigMap into a Pod and a container.                          *)

DefaultSparkConfDir == <<"/etc/spark/conf">>
DefaultHadoopConfDir == <<"/etc/hadoop/conf">>

\* A faulty variant: a volume of the same name is replaced, not kept.
addConfigMapVolumeToPodReplace(configMapName, configMapVolumeName, podVolumes) ==
    LET volume == [Name |-> configMapVolumeName,
                   VolumeSource |-> [ConfigMap |-> [Name |-> configMapName]]]
    IN  [Volumes |-> Append(SelectSeq(podVolumes,
                                LAMBDA v : v.Name # configMapVolumeName), volume),
         ret |-> volume.Name]

\* returns the new pod.Spec.Volumes and the returned volume name
addConfigMapVolumeToPod(configMapName, configMapVolumeName, podVolumes) ==
    LET volume == [Name |-> configMapVolumeName,
                   VolumeSource |-> [ConfigMap |-> [Name |-> configMapName]]]
    IN  [Volumes |-> Append(podVolumes, volume), ret |-> volume.Name]

AddSparkConfigMapVolumeToPod(configMapName, podVolumes) ==
    addConfigMapVolumeToPod(configMapName, SparkConfigMapVolumeName, podVolumes)

AddHadoopConfigMapVolumeToPod(configMapName, podVolumes) ==
    addConfigMapVolumeToPod(configMapName, HadoopConfigMapVolumeName, podVolumes)

\* A faulty variant: the variable is not added when one of that name exists.
mountConfigMapToContainerOnce(volumeName, mountPath, env, container) ==
    LET volumeMount == [Name |-> volumeName, ReadOnly |-> TRUE,
                        MountPath |-> mountPath]
        appCredentialEnvVar == [Name |-> env, Value |-> mountPath]
    IN  [VolumeMounts |-> Append(container.VolumeMounts, volumeMount),
         Env |-> IF \E i \in 1 .. Len(container.Env) : container.Env[i].Name = env
                 THEN container.Env
                 ELSE Append(container.Env, appCredentialEnvVar)]

\* returns the new container.VolumeMounts and container.Env
mountConfigMapToContainer(volumeName, mountPath, env, container) ==
    LET volumeMount == [Name |-> volumeName, ReadOnly |-> TRUE,
                        MountPath |-> mountPath]
        appCredentialEnvVar == [Name |-> env, Value |-> mountPath]
    IN  [VolumeMounts |-> Append(container.VolumeMounts, volumeMount),
         Env |-> Append(container.Env, appCredentialEnvVar)]

MountSparkConfigMapToContainer(volumeName, mountPath, container) ==
    mountConfigMapToContainer(volumeName, mountPath, SparkConfDirEnvVar, container)

MountHadoopConfigMapToContainer(volumeName, mountPath, container) ==
    mountConfigMapToContainer(volumeName, mountPath, HadoopConfDirEnvVar, container)

ConfigMapNames == {<<"cm1">>, <<"cm2">>}
VolumeNames == {SparkConfigMapVolumeName, HadoopConfigMapVolumeName}
MountPaths == {DefaultSparkConfDir, DefaultHadoopConfDir}

\* what the pod and the container may hold before the first call
Pods ==
    [Volumes : {<<>>, <<[Name |-> SparkConfigMapVolumeName,
                         VolumeSource |-> [ConfigMap |-> [Name |-> <<"cm0">>]]]>>},
     VolumeMounts : {<<>>, <<[Name |-> SparkConfigMapVolumeName, ReadOnly |-> FALSE,
                              MountPath |-> DefaultSparkConfDir]>>},
     Env : {<<>>, <<[Name |-> SparkConfDirEnvVar, Value |-> <<"/opt/conf">>]>>}]

InitPod ==
    /\ pod0 \in Pods
    /\ Volumes = pod0.Volumes
    /\ VolumeMounts = pod0.VolumeMounts
    /\ Env = pod0.Env
    /\ wired = <<>>
    /\ disk = EmptyMap
    /\ added = <<>>
    /\ AppFresh /\ BuildIdle /\ PipeIdle

AddVolume(flow, configMapName) ==
    /\ Len(wired) < MaxWirings
    /\ LET r == IF flow = "spark"
                THEN AddSparkConfigMapVolumeToPod(configMapName, Volumes)
                ELSE AddHadoopConfigMapVolumeToPod(configMapName, Volumes)
       IN  /\ Volumes' = r.Volumes
           /\ wired' = Append(wired, [op |-> "volume", flow |-> flow,
                                      configMapName |-> configMapName,
                                      volumeName |-> r.ret, mountPath |-> <<>>])
    /\ UNCHANGED <<VolumeMounts, Env, pod0, disk, added, appVars, built,
                   buildArgs, pipeVars>>

Mount(flow, volumeName, mountPath) ==
    /\ Len(wired) < MaxWirings
    /\ LET container == [VolumeMounts |-> VolumeMounts, Env |-> Env]
           r == IF flow = "spark"
                THEN MountSparkConfigMapToContainer(volumeName, mountPath, container)
                ELSE MountHadoopConfigMapToContainer(volumeName, mountPath, container)
       IN  /\ VolumeMounts' = r.VolumeMounts
           /\ Env' = r.Env
    /\ wired' = Append(wired, [op |-> "mount", flow |-> flow,
                               configMapName |-> <<>>,
                               volumeName |-> volumeName, mountPath |-> mountPath])
    /\ UNCHANGED <<Volumes, pod0, disk, added, appVars, built, buildArgs, pipeVars>>

NextPod ==
    \/ \E flow \in Flows, c \in ConfigMapNames : AddVolume(flow, c)
    \/ \E flow \in Flows, v \in VolumeNames, m \in MountPaths : Mount(flow, v, m)

SpecPod == InitPod /\ [][NextPod]_vars

-----------------------------------------------------------------------------
(* Operators the properties are stated with.                               *)

IsPrefix(s, t) == Len(s) <= Len(t) /\ SubSeq(t, 1, Len(s)) = s

\* "k1=v1,k2=v2,...": the comma-join of the pairs
RECURSIVE JoinPairs(_)
JoinPairs(pairs) ==
    IF Len(pairs) = 1 THEN Head(pairs).key \o <<"=">> \o Head(pairs).value
    ELSE Head(pairs).key \o <<"=">> \o Head(pairs).value \o <<",">>
         \o JoinPairs(Tail(pairs))

\* the map holds exactly the join of the pairs under `k`, or no `k` at all
HoldsPairs(conf, k, pairs) ==
    IF pairs = <<>> THEN k \notin DOMAIN conf
    ELSE k \in DOMAIN conf /\ conf[k] = JoinPairs(pairs)

-----------------------------------------------------------------------------
(* Properties of buildConfigMapFromConfigDir (SpecBuild).                  *)

Listed == disk[buildArgs.dir].files
Regular == {i \in 1 .. Len(Listed) : ~Listed[i].IsDir}

RECURSIVE BytesInOrder(_)
BytesInOrder(files) ==
    IF files = <<>> THEN <<>>
    ELSE (IF Head(files).IsDir THEN <<>> ELSE Head(files).bytes)
         \o BytesInOrder(Tail(files))

NameOfBytes(bytes) ==
    buildArgs.namePrefix \o <<"-">> \o FormatUint32(HashWrite(NewHash32, bytes))

\* C1: two builds of the same directory with the same prefix, namespace and
\* owner UID return the same result, and a successful build is named
\* "<prefix>-<hash>", the hash being that of the bytes of the non-directory
\* files in listing order, then the directory path, the namespace and the UID.
C1_DeterministicName ==
    /\ \A b1, b2 \in Builds :
          built[b1] # NotBuilt /\ built[b2] # NotBuilt => built[b1] = built[b2]
    /\ \A b \in Builds :
          built[b].err = NoError =>
              built[b].configMap.Name =
                  NameOfBytes(BytesInOrder(Listed) \o buildArgs.dir
                              \o buildArgs.namespace \o buildArgs.appUID)

C1_Witness ==
    /\ \A b \in Builds : built[b].err = NoError
    /\ Cardinality(Regular) = 2
    /\ \A i \in Regular : Listed[i].bytes # <<>>
    /\ buildArgs.dir # buildArgs.namespace
    /\ buildArgs.appUID # <<>>

\* C2: the Data of a successful build has exactly one key per non-directory
\* entry, mapped to that file's content; directories are left out, and a
\* directory without files gives an empty map and a name derived from the
\* path, the namespace and the UID alone.
C2_ContentFidelity ==
    \A b \in Builds :
        built[b].err = NoError =>
            LET cm == built[b].configMap IN
            /\ DOMAIN cm.Data = {Listed[i].Name : i \in Regular}
            /\ \A i \in Regular : cm.Data[Listed[i].Name] = Listed[i].bytes
            /\ Regular = {} =>
                  /\ cm.Data = EmptyMap
                  /\ cm.Name = NameOfBytes(buildArgs.dir \o buildArgs.namespace
                                           \o buildArgs.appUID)

C2_Witness ==
    /\ built[1].err = NoError
    /\ Len(Listed) = 2
    /\ Cardinality(Regular) = 1
    /\ DOMAIN built[1].configMap.Data = {Listed[i].Name : i \in Regular}

-----------------------------------------------------------------------------
(* Properties of AddConfigMapAnnotation (SpecAnnot).                       *)

CallsOn(calls, k) == SelectSeq(calls, LAMBDA c : c.annotationConfKey = k)

ValueOf(conf, k) == IF k \in DOMAIN conf THEN conf[k] ELSE <<>>

\* C3: after every call the value of each annotation key is the comma-join
\* of the "subkey=value" pairs of the calls made on it, in call order (a
\* repeated subkey is one more pair); the value before the call is a prefix
\* of the value after it; and the call leaves every other key as it was.
C3_AppendOnly ==
    [][/\ \A k \in AnnotationKeys :
             /\ HoldsPairs(SparkConf', k, CallsOn(added', k))
             /\ IsPrefix(ValueOf(SparkConf, k), ValueOf(SparkConf', k))
       /\ LET call == added'[Len(added')] IN
          /\ call.annotationConfKey \in DOMAIN SparkConf'
          /\ \A k \in DOMAIN SparkConf' :
                k # call.annotationConfKey =>
                    k \in DOMAIN SparkConf /\ SparkConf'[k] = SparkConf[k]
          /\ SparkConf'[call.annotationConfKey] =
                IF call.annotationConfKey \in DOMAIN SparkConf
                THEN SparkConf[call.annotationConfKey] \o <<",">> \o call.key
                     \o <<"=">> \o call.value
                ELSE call.key \o <<"=">> \o call.value]_vars

C3_Witness ==
    /\ Len(added) = 3
    /\ \A i \in 1 .. 3 : added[i].annotationConfKey = SparkDriverAnnotationsKey
    /\ added[1].key = added[2].key
    /\ added[3].key # added[1].key
    /\ SparkConf[SparkDriverAnnotationsKey] =
          added[1].key \o <<"=">> \o added[1].value \o <<",">>
          \o added[2].key \o <<"=">> \o added[2].value \o <<",">>
          \o added[3].key \o <<"=">> \o added[3].value
    /\ SparkExecutorAnnotationsKey \notin DOMAIN SparkConf

-----------------------------------------------------------------------------
(* Properties of CreateSparkConfigMap / CreateHadoopConfigMap.             *)

Succeeded(p) == inv[p].pc = "done" /\ inv[p].ret = NoError
PastCreate(p) ==
    \/ inv[p].pc \in {"driverLookup", "driverStore", "executorLookup",
                      "executorStore", "setField"}
    \/ Succeeded(p)
PastDriver(p) ==
    inv[p].pc \in {"executorLookup", "executorStore", "setField"} \/ Succeeded(p)
PastExecutor(p) == inv[p].pc = "setField" \/ Succeeded(p)
Quiescent == \A p \in Invocations : ~Running(p)

IOErrors == {"ReadDirError", "ReadFileError"}
StoreErrors == {"AlreadyExists", "CreateError"}

SubkeyOf(p) ==
    IF inv[p].flow = "spark" THEN <<"apache-spark-on-k8s/", "spark-config-map">>
    ELSE <<"apache-spark-on-k8s/", "hadoop-config-map">>

\* the pairs of the invocations in S, in the order the invocations were made
RECURSIVE PairsOf(_, _)
PairsOf(p, S) ==
    IF p > MaxInvocations THEN <<>>
    ELSE (IF p \in S THEN <<[key |-> SubkeyOf(p), value |-> inv[p].name]>>
          ELSE <<>>) \o PairsOf(p + 1, S)

\* the bundle the invocation's directory builds to
BundleOf(p) ==
    buildConfigMapFromConfigDir(disk, inv[p].dir,
        IF inv[p].flow = "spark" THEN <<"spark-config-map">>
        ELSE <<"hadoop-config-map">>,
        inv[p].namespace, AppUID)

\* the text cut at every `sep`
RECURSIVE SplitOn(_, _)
SplitOn(text, sep) ==
    IF \A i \in 1 .. Len(text) : text[i] # sep THEN <<text>>
    ELSE LET i == CHOOSE j \in 1 .. Len(text) :
                      text[j] = sep /\ \A k \in 1 .. j - 1 : text[k] # sep
         IN  <<SubSeq(text, 1, i - 1)>> \o SplitOn(SubSeq(text, i + 1, Len(text)), sep)

\* the "subkey=value" entries of an annotation value, as the consumer of
\* the annotations reads them
ParsePairs(text) ==
    LET chunks == SplitOn(text, ",") IN
    [i \in 1 .. Len(chunks) |->
        LET kv == SplitOn(chunks[i], "=") IN
        [key |-> kv[1],
         value |-> IF Len(kv) < 2 THEN <<>> ELSE kv[2]]]

PairsIn(conf, k) == IF k \in DOMAIN conf THEN ParsePairs(conf[k]) ELSE <<>>

LastValueOf(conf, k, subkey) ==
    LET mine == SelectSeq(PairsIn(conf, k), LAMBDA e : e.key = subkey)
    IN  mine[Len(mine)].value

\* C4: an invocation whose directory or file cannot be read returns that
\* I/O error, returns no bundle, issues no create request and leaves the
\* annotations and the config-map fields as they were.
C4_IOErrorReturned ==
    \A p \in Invocations :
        inv[p].pc = "done" /\ inv[p].err \in IOErrors =>
            /\ inv[p].ret = inv[p].err
            /\ inv[p].configMap.nil
            /\ requests[p] = 0
            /\ HoldsPairs(SparkConf, SparkDriverAnnotationsKey,
                          PairsOf(1, {q \in Invocations : PastDriver(q)}))
            /\ HoldsPairs(SparkConf, SparkExecutorAnnotationsKey,
                          PairsOf(1, {q \in Invocations : PastExecutor(q)}))

\* What the code does on an I/O error: the invocation ends in a nil-pointer
\* panic, with no request made and nothing written.
IOErrorPanics ==
    \A p \in Invocations :
        inv[p].pc = "done" /\ inv[p].err \in IOErrors =>
            /\ inv[p].ret = "panic"
            /\ inv[p].configMap.nil
            /\ requests[p] = 0
            /\ HoldsPairs(SparkConf, SparkDriverAnnotationsKey,
                          PairsOf(1, {q \in Invocations : PastDriver(q)}))
            /\ HoldsPairs(SparkConf, SparkExecutorAnnotationsKey,
                          PairsOf(1, {q \in Invocations : PastExecutor(q)}))

\* C5: an invocation issues at most one create request, and when the
\* request fails it returns the store's error, with no second request, no
\* annotation entry added and no config-map field set.
C5_StoreErrorReturned ==
    \A p \in Invocations :
        /\ requests[p] <= 1
        /\ inv[p].pc = "done" /\ inv[p].err \in StoreErrors =>
              /\ inv[p].ret = inv[p].err
              /\ requests[p] = 1
              /\ HoldsPairs(SparkConf, SparkDriverAnnotationsKey,
                            PairsOf(1, {q \in Invocations : PastDriver(q)}))
              /\ HoldsPairs(SparkConf, SparkExecutorAnnotationsKey,
                            PairsOf(1, {q \in Invocations : PastExecutor(q)}))

\* What the code does on a failed create: it returns the error when the
\* client handed back an object, and panics when the client handed back nil.
StoreErrorReturnedOrPanics ==
    \A p \in Invocations :
        /\ requests[p] <= 1
        /\ inv[p].pc = "done" /\ inv[p].err \in StoreErrors =>
              /\ inv[p].ret = IF inv[p].configMap.nil THEN "panic" ELSE inv[p].err
              /\ requests[p] = 1
              /\ HoldsPairs(SparkConf, SparkDriverAnnotationsKey,
                            PairsOf(1, {q \in Invocations : PastDriver(q)}))
              /\ HoldsPairs(SparkConf, SparkExecutorAnnotationsKey,
                            PairsOf(1, {q \in Invocations : PastExecutor(q)}))

\* C6: an invocation builds the bundle before it issues its one create
\* request; only an invocation whose create succeeded writes annotations;
\* it adds one pair "<flow's subkey>=<name the store returned>" to the
\* driver key and then the same pair to the executor key, so that both keys
\* hold the pairs of the successful invocations in the order they were made.
C6_BuildCreateAnnotate ==
    /\ \A p \in Invocations :
          /\ inv[p].pc \in {"idle", "build"} => requests[p] = 0
          /\ inv[p].pc = "create" =>
                requests[p] = 0 /\ inv[p].configMap = BundleOf(p).configMap
          /\ PastCreate(p) =>
                /\ requests[p] = 1
                /\ inv[p].name = BundleOf(p).configMap.Name
                /\ InStore(store, inv[p].name)
    /\ HoldsPairs(SparkConf, SparkDriverAnnotationsKey,
                  PairsOf(1, {p \in Invocations : PastDriver(p)}))
    /\ HoldsPairs(SparkConf, SparkExecutorAnnotationsKey,
                  PairsOf(1, {p \in Invocations : PastExecutor(p)}))

C6_Witness ==
    /\ Succeeded(1) /\ Succeeded(2)
    /\ inv[1].flow = "spark" /\ inv[2].flow = "hadoop"
    /\ \A k \in AnnotationKeys :
          SparkConf[k] = SparkConfigMapAnnotation \o <<"=">> \o inv[1].name
                         \o <<",">> \o HadoopConfigMapAnnotation \o <<"=">>
                         \o inv[2].name


\* C7: two invocations of the same flow on the same directory, one after
\* the other or interleaved: when the store enforces unique names exactly
\* one succeeds, the other returns the conflict error, and each annotation
\* key gains one pair; when it does not, both succeed and each key gains
\* the pair twice.  (Invocations that meet an I/O error or a store failure
\* other than the conflict are outside the claim.)
C7_TwiceSameInputs ==
    LET pair == [key |-> SubkeyOf(1), value |-> BundleOf(1).configMap.Name] IN
    (/\ inv[1].pc = "done" /\ inv[2].pc = "done"
     /\ \A p \in Invocations : p > 2 => inv[p].pc = "idle"
     /\ inv[1].flow = inv[2].flow /\ inv[1].dir = inv[2].dir
     /\ \A p \in {1, 2} : inv[p].err \notin IOErrors \cup {"CreateError"})
    => IF enforceUnique
       THEN /\ \E p \in {1, 2} :
                  inv[p].ret = NoError /\ inv[3 - p].ret = "AlreadyExists"
            /\ \A k \in AnnotationKeys : HoldsPairs(SparkConf, k, <<pair>>)
       ELSE /\ inv[1].ret = NoError /\ inv[2].ret = NoError
            /\ \A k \in AnnotationKeys : HoldsPairs(SparkConf, k, <<pair, pair>>)

\* C7 with the invocations made in turn and a client that hands back an
\* object with the conflict error: the part of C7 that the code meets.
TwiceInTurn ==
    LET pair == [key |-> SubkeyOf(1), value |-> BundleOf(1).configMap.Name] IN
    (/\ inv[1].pc = "done" /\ inv[2].pc = "done"
     /\ \A p \in Invocations : p > 2 => inv[p].pc = "idle"
     /\ inv[1].flow = inv[2].flow /\ inv[1].dir = inv[2].dir
     /\ \A p \in {1, 2} : inv[p].err \notin IOErrors \cup {"CreateError"})
    => IF enforceUnique
       THEN /\ inv[1].ret = NoError
            /\ inv[2].ret = IF inv[2].configMap.nil THEN "panic" ELSE "AlreadyExists"
            /\ \A k \in AnnotationKeys : HoldsPairs(SparkConf, k, <<pair>>)
       ELSE /\ inv[1].ret = NoError /\ inv[2].ret = NoError
            /\ \A k \in AnnotationKeys : HoldsPairs(SparkConf, k, <<pair, pair>>)

\* Two interleaved invocations on a store without unique names both
\* return nil, and each key holds the pair once or twice: once when both
\* looked the key up before either assigned it.
InterleavedLosesPair ==
    LET pair == [key |-> SubkeyOf(1), value |-> BundleOf(1).configMap.Name] IN
    (/\ inv[1].pc = "done" /\ inv[2].pc = "done"
     /\ \A p \in Invocations : p > 2 => inv[p].pc = "idle"
     /\ inv[1].flow = inv[2].flow /\ inv[1].dir = inv[2].dir
     /\ \A p \in {1, 2} : inv[p].err \notin IOErrors \cup {"CreateError"}
     /\ ~enforceUnique)
    => /\ inv[1].ret = NoError /\ inv[2].ret = NoError
       /\ \A k \in AnnotationKeys :
             HoldsPairs(SparkConf, k, <<pair, pair>>)
             \/ HoldsPairs(SparkConf, k, <<pair>>)

MostRecent(flow) ==
    LET S == {p \in Invocations : Succeeded(p) /\ inv[p].flow = flow}
    IN  IF S = {} THEN 0 ELSE CHOOSE p \in S : \A q \in S : q <= p

FieldAgrees(field, flow, subkey) ==
    IF MostRecent(flow) = 0 THEN field = NilString
    ELSE LET name == inv[MostRecent(flow)].name IN
         /\ field = StringPtr(name)
         /\ name = BundleOf(MostRecent(flow)).configMap.Name
         /\ \A k \in AnnotationKeys : LastValueOf(SparkConf, k, subkey) = name

\* C10: between invocations made in turn, Spec.SparkConfigMap is set only
\* if a CreateSparkConfigMap invocation succeeded, and is then the name of
\* the object the most recent successful one created, which is also the
\* value of the last spark-config-map pair of the driver and the executor
\* key; likewise Spec.HadoopConfigMap for CreateHadoopConfigMap (so neither
\* flow touches the other's field); and at all times every name in a field
\* or in a pair of the two keys is the name of an object in the store.
C10_FieldsFollowStore ==
    /\ Quiescent =>
          /\ FieldAgrees(SparkConfigMap, "spark",
                         <<"apache-spark-on-k8s/", "spark-config-map">>)
          /\ FieldAgrees(HadoopConfigMap, "hadoop",
                         <<"apache-spark-on-k8s/", "hadoop-config-map">>)
    /\ ~SparkConfigMap.nil => InStore(store, SparkConfigMap.val)
    /\ ~HadoopConfigMap.nil => InStore(store, HadoopConfigMap.val)
    /\ \A k \in AnnotationKeys :
          \A i \in 1 .. Len(PairsIn(SparkConf, k)) :
              InStore(store, PairsIn(SparkConf, k)[i].value)

C10_Witness ==
    /\ Quiescent
    /\ Succeeded(1) /\ inv[1].flow = "spark"
    /\ Succeeded(2) /\ inv[2].flow = "hadoop"
    /\ SparkConfigMap = StringPtr(inv[1].name)
    /\ HadoopConfigMap = StringPtr(inv[2].name)
    /\ inv[1].name # inv[2].name

-----------------------------------------------------------------------------
(* Properties of the Pod and container wiring (SpecPod).                   *)

Count(calls, op) == Len(SelectSeq(calls, LAMBDA c : c.op = op))

EnvVarOf(flow) == IF flow = "spark" THEN "SPARK_CONF_DIR" ELSE "HADOOP_CONF_DIR"
VolumeNameOf(flow) ==
    IF flow = "spark" THEN <<"spark-config-map-volume">>
    ELSE <<"hadoop-config-map-volume">>

\* C8: every volume-add call makes the pod's volume list one longer and
\* every mount call makes the container's mount list and environment list
\* one longer each (so one call of each adds exactly one volume, one mount
\* and one variable); the i-th mount call's mount is read-only, has the
\* given volume name and mount path, and its variable is SPARK_CONF_DIR
\* (resp. HADOOP_CONF_DIR) with the mount path as value, whatever mounts
\* and variables were there before.
C8_WiringCardinality ==
    LET mounts == SelectSeq(wired, LAMBDA c : c.op = "mount") IN
    /\ Len(Volumes) = Len(pod0.Volumes) + Count(wired, "volume")
    /\ Len(VolumeMounts) = Len(pod0.VolumeMounts) + Len(mounts)
    /\ Len(Env) = Len(pod0.Env) + Len(mounts)
    /\ \A i \in 1 .. Len(mounts) :
          /\ VolumeMounts[Len(pod0.VolumeMounts) + i] =
                [Name |-> mounts[i].volumeName, ReadOnly |-> TRUE,
                 MountPath |-> mounts[i].mountPath]
          /\ Env[Len(pod0.Env) + i] =
                [Name |-> EnvVarOf(mounts[i].flow), Value |-> mounts[i].mountPath]

C8_Witness ==
    /\ Len(wired) = 2
    /\ wired[1].op = "volume" /\ wired[1].flow = "spark"
    /\ wired[2].op = "mount" /\ wired[2].flow = "spark"
    /\ wired[2].volumeName = wired[1].volumeName
    /\ Len(pod0.Env) = 1 /\ Len(Env) = 2
    /\ Env[1].Name = Env[2].Name /\ Env[1].Value # Env[2].Value
    /\ Len(pod0.VolumeMounts) = 1 /\ Len(VolumeMounts) = 2
    /\ VolumeMounts[1].MountPath = VolumeMounts[2].MountPath
    /\ Len(Volumes) = Len(pod0.Volumes) + 1

====
